---- MODULE Spec2Model ----
(***************************************************************************)
(* system76-power: the graphics switching core (src/src/graphics.rs).      *)
(*                                                                         *)
(* The world is the PCI device tree (which functions the hardware has,     *)
(* whether each one's device node exists, which driver is bound to it),    *)
(* the set of loaded kernel modules, the modprobe file, the fallback       *)
(* service flag and the initramfs.  The program is the Graphics object     *)
(* built by Graphics::new() and the calls made on it.  A call is a         *)
(* sequence of steps, one per system call, so that what the kernel does    *)
(* between two system calls of the same call is part of the behaviours.    *)
(***************************************************************************)
EXTENDS Integers, Sequences, FiniteSets, TLC

VARIABLES
    tree,        \* the PCI functions of the hardware, in enumeration order
    node,        \* node[f]: the device node of function f exists
    drv,         \* drv[f]: the driver bound to f, or NoDriver
    modules,     \* names of the loaded kernel modules
    file,        \* content of MODPROBE_PATH (a sequence of lines), or NoFile
    service,     \* nvidia-fallback.service: "enabled", "disabled" or "absent"
    initramfs,   \* the modprobe file content the boot image was built from
    gfx,         \* the Graphics object, or NoGraphics
    pc,          \* pc[t]: where caller t is in its call
    fr,          \* fr[t]: the call's arguments and loop positions
    result,      \* result[t]: what the last finished call of t returned
    log,         \* log[t]: the system calls issued by t's current call
    rebound,     \* the kernel bound a driver since the last call started
    cpufreq      \* the cpufreq files of sysfs and the writes made to them

vars == <<tree, node, drv, modules, file, service, initramfs, gfx,
          pc, fr, result, log, rebound, cpufreq>>

world == <<node, drv, modules, file, service, initramfs>>

----------------------------------------------------------------------------
(* Bounds of the model. *)

MaxNvFuncs == 2     \* NVIDIA functions of a laptop's device tree
MaxSmall == 2       \* functions of a small device tree
MaxFuncs == 3       \* functions of an arbitrary device tree (discovery)
MaxPartial == 1     \* lines a failing write leaves in the modprobe file
MaxRaceFuncs == 1   \* NVIDIA functions of the laptop two callers share
MaxCpu == 3         \* highest index of a possible CPU

(* Program constants. *)

DISPLAY_CLASS == 3
VENDOR_AMD == 4098
VENDOR_NVIDIA == 4318
VENDOR_INTEL == 32902

Threads == {"main", "other"}
Main == "main"

NoDriver == "-"
NoFile == <<<<"(no file)">>>>
NoGraphics == [ok |-> FALSE]
NoId == <<>>
ReadErr == 0 - 1

(* Class codes and vendor ids that device trees are built from:            *)
(* 0x030000 VGA, 0x030200 3D controller, 0x040300 audio; 0x1AF4 is a       *)
(* vendor that is none of AMD, Intel, NVIDIA.                              *)
ClassCodes == {196608, 197120, 262912}
VendorIds == {VENDOR_AMD, VENDOR_NVIDIA, VENDOR_INTEL, 6900}

Vendors == {"nvidia", "intel", "NVIDIA"}
ExitCodes == {0, 1, 2}

----------------------------------------------------------------------------
(* The modprobe templates: a file is a sequence of lines, a line a         *)
(* sequence of words.                                                      *)

HEADER == <<"#", "Automatically", "generated", "by", "system76-power">>

MODPROBE_NVIDIA == <<HEADER>>

MODPROBE_INTEL_six ==
    << HEADER,
       <<"blacklist", "nouveau">>,
       <<"blacklist", "nvidia">>,
       <<"blacklist", "nvidia-drm">>,
       <<"alias", "nouveau", "off">>,
       <<"alias", "nvidia", "off">>,
       <<"alias", "nvidia-drm", "off">> >>

MODPROBE_INTEL ==
    << HEADER,
       <<"blacklist", "i2c_nvidia_gpu">>,
       <<"blacklist", "nouveau">>,
       <<"blacklist", "nvidia">>,
       <<"blacklist", "nvidia-drm">>,
       <<"blacklist", "nvidia-modeset">>,
       <<"alias", "i2c_nvidia_gpu", "off">>,
       <<"alias", "nouveau", "off">>,
       <<"alias", "nvidia", "off">>,
       <<"alias", "nvidia-drm", "off">>,
       <<"alias", "nvidia-modeset", "off">> >>

OtherContent == << <<"options", "snd_hda_intel", "power_save=1">> >>

----------------------------------------------------------------------------
(* Device trees. *)

Fn(slot, fn, class, vendor) ==
    [id |-> <<slot, fn>>, class |-> class, vendor |-> vendor]

Ids(tr) == {tr[k].id : k \in DOMAIN tr}

\* The functions of one NVIDIA slot: function 0 is the GPU (VGA), function
\* 1 is of class comp (its audio device, or a second display controller),
\* the others are audio devices.
NvSlot(slot, nf, comp) ==
    [k \in 1..nf |->
        Fn(slot, k - 1,
           IF k = 1 THEN 196608 ELSE IF k = 2 THEN comp ELSE 262912,
           VENDOR_NVIDIA)]

\* The NVIDIA slots 1..Len(shape), slot s with shape[s] functions.
RECURSIVE NvSlots(_, _)
NvSlots(shape, comp) ==
    IF shape = <<>> THEN <<>>
    ELSE NvSlots(SubSeq(shape, 1, Len(shape) - 1), comp)
            \o NvSlot(Len(shape), shape[Len(shape)], comp)

\* A machine: an optional Intel GPU at slot 0, then the NVIDIA slots.
MkTree(hasIntel, shape, comp) ==
    (IF hasIntel THEN <<Fn(0, 0, 196608, VENDOR_INTEL)>> ELSE <<>>)
        \o NvSlots(shape, comp)

\* The shapes with n NVIDIA functions in all.
Shapes(n) ==
    UNION {[1..nd -> 1..n] : nd \in 0..n}

Machines(n) ==
    {MkTree(hi, shape, comp) :
        hi \in BOOLEAN, shape \in Shapes(n), comp \in {262912, 197120}}

\* Switchable laptops with up to MaxNvFuncs NVIDIA functions.
LaptopTrees ==
    {tr \in Machines(MaxNvFuncs) :
        /\ Len(tr) \in 2..(MaxNvFuncs + 1)
        /\ tr[1].vendor = VENDOR_INTEL}

\* Small machines, with or without an Intel or an NVIDIA GPU.
SmallTrees ==
    {tr \in Machines(MaxSmall) : Len(tr) \in 1..MaxSmall}

\* Arbitrary trees: function k sits at slot k \div 2, function k % 2, with
\* any class and vendor, readable or not.
AnyTrees ==
    UNION {[1..n -> (ClassCodes \cup {ReadErr}) \X (VendorIds \cup {ReadErr})]
            : n \in 1..MaxFuncs}

AnyTree(cv) ==
    [k \in DOMAIN cv |-> Fn(k \div 2, k % 2, cv[k][1], cv[k][2])]

\* Sets of loaded modules: with the proprietary driver, with nouveau,
\* with neither.
ModuleSets ==
    { {"snd_hda_intel"},
      {"snd_hda_intel", "nvidia"},
      {"snd_hda_intel", "nouveau"} }

SmallModuleSets == {m \in ModuleSets : "nouveau" \notin m}

----------------------------------------------------------------------------
(* GraphicsDevice and Graphics::new(). *)

GraphicsDevice(id, functions) == [id |-> id, functions |-> functions]

\* id().split('.').next(): the part of the address before the function.
slot_of(id) == id[1]

\* The closure `functions` of Graphics::new().
functions(parent, devs) ==
    LET same(d) == slot_of(d.id) = slot_of(parent.id)
        sel == SelectSeq(devs, same)
    IN  [k \in DOMAIN sel |-> sel[k].id]

class_byte_mid(c) == (c \div 256) % 256

\* (c >> 16) & 0xFF
class_byte(c) == (c \div 65536) % 256

Lists(amd, intel, nvidia, other) ==
    [ok |-> TRUE, amd |-> amd, intel |-> intel, nvidia |-> nvidia,
     other |-> other]

\* The classification loop of Graphics::new() from device k on; a class or
\* vendor attribute that cannot be read ends construction with an error.
RECURSIVE classify_all(_, _, _)

\* dev.class()? and dev.vendor()?: what a failed read of device k does.
on_read_error_skip(devs, k, g) == classify_all(devs, k + 1, g)

on_read_error(devs, k, g) == NoGraphics

classify_all(devs, k, g) ==
    IF k > Len(devs) THEN g
    ELSE LET dev == devs[k]
             gd == GraphicsDevice(dev.id, functions(dev, devs))
         IN  IF dev.class = ReadErr THEN on_read_error(devs, k, g)
             ELSE IF class_byte(dev.class) # DISPLAY_CLASS
                  THEN classify_all(devs, k + 1, g)
             ELSE IF dev.vendor = ReadErr THEN on_read_error(devs, k, g)
             ELSE IF dev.vendor = VENDOR_AMD
                  THEN classify_all(devs, k + 1,
                           [g EXCEPT !.amd = Append(@, gd)])
             ELSE IF dev.vendor = VENDOR_NVIDIA
                  THEN classify_all(devs, k + 1,
                           [g EXCEPT !.nvidia = Append(@, gd)])
             ELSE IF dev.vendor = VENDOR_INTEL
                  THEN classify_all(devs, k + 1,
                           [g EXCEPT !.intel = Append(@, gd)])
             ELSE classify_all(devs, k + 1,
                           [g EXCEPT !.other = Append(@, gd)])

\* PciDevice::all(): the functions whose node exists, in address order.
all_devices(tr, nd) == SelectSeq(tr, LAMBDA d : nd[d.id])

new_graphics(tr, nd) ==
    classify_all(all_devices(tr, nd), 1, Lists(<<>>, <<>>, <<>>, <<>>))

----------------------------------------------------------------------------
(* Queries. *)

exists(dev, nd) == \E k \in DOMAIN dev.functions : nd[dev.functions[k]]

can_switch_or(g) == Len(g.intel) # 0 \/ Len(g.nvidia) # 0

can_switch_nvidia(g) == Len(g.nvidia) # 0

can_switch(g) == Len(g.intel) # 0 /\ Len(g.nvidia) # 0

get_vendor(mods) ==
    IF \E m \in mods : m = "nouveau" \/ m = "nvidia"
    THEN "nvidia" ELSE "intel"

get_power(g, nd) == \E k \in DOMAIN g.nvidia : exists(g.nvidia[k], nd)

----------------------------------------------------------------------------
(* Results, frames and log entries. *)

Ok ==
    [err |-> "Ok", func |-> NoId, driver |-> "", device |-> NoId,
     cmd |-> "", status |-> 0, vendor |-> "", power |-> FALSE]

Err(e) == [Ok EXCEPT !.err = e]

\* A call's frame: its arguments, its place in the device and function
\* loops, the driver its last query found, and (for the record, in a
\* set_power call) which nodes existed and whether any function of an
\* NVIDIA device had a driver when it started, and whether another
\* caller's call has been in progress at any time during this one.
Frame(op, vendor, power) ==
    [op |-> op, vendor |-> vendor, power |-> power, i |-> 0, j |-> 0,
     seen |-> NoDriver, node0 |-> <<>>, bound0 |-> FALSE, conc |-> FALSE]

\* A system call or command issued by a call: code 0 is success, for a
\* command code is its exit status and SpawnErr that it could not be run.
Ev(ev, id, arg, code) == [ev |-> ev, id |-> id, arg |-> arg, code |-> code]

SpawnErr == 0 - 1

CurDev(t) == gfx.nvidia[fr[t].i]

CurFn(t) == CurDev(t).functions[fr[t].j]

\* The call of t returns res, having issued evs last.
Finish(t, res, evs) ==
    /\ pc' = [pc EXCEPT ![t] = "done"]
    /\ result' = [result EXCEPT ![t] = res]
    /\ log' = [log EXCEPT ![t] = @ \o evs]
    /\ UNCHANGED fr

\* The call of t goes on at label l, position (i, j), having issued evs.
Goto(t, l, i, j, evs) ==
    /\ pc' = [pc EXCEPT ![t] = l]
    /\ fr' = [fr EXCEPT ![t].i = i, ![t].j = j]
    /\ log' = [log EXCEPT ![t] = @ \o evs]
    /\ UNCHANGED result

\* A call starts only when the caller's previous one has returned; the
\* calls of the other callers that are in progress are then concurrent
\* with it.
Begin(t, frame) ==
    /\ pc[t] = "done"
    /\ gfx.ok
    /\ fr' = [u \in Threads |->
                IF u = t
                THEN [frame EXCEPT
                          !.conc = \E v \in Threads \ {t} : pc[v] # "done"]
                ELSE IF pc[u] # "done" THEN [fr[u] EXCEPT !.conc = TRUE]
                ELSE fr[u]]
    /\ rebound' = FALSE

----------------------------------------------------------------------------
(* The kernel. *)

\* The drivers the kernel can bind to a function: those of the loaded
\* modules that match its class and vendor.
KernelDrivers(d, mods) ==
    IF d.class = ReadErr \/ d.vendor = ReadErr THEN {}
    ELSE IF class_byte(d.class) = DISPLAY_CLASS /\ d.vendor = VENDOR_NVIDIA
         THEN {"nvidia", "nouveau"} \cap mods
    ELSE IF class_byte(d.class) = DISPLAY_CLASS /\ d.vendor = VENDOR_INTEL
         THEN {"i915"} \cap mods
    ELSE IF class_byte(d.class) = 4 THEN {"snd_hda_intel"} \cap mods
    ELSE {}

\* The kernel binds a driver to a function that has none (a probe after a
\* rescan, a udev rule, a module load).
KernelBind ==
    \E k \in DOMAIN tree :
        \E d \in KernelDrivers(tree[k], modules) :
            /\ node[tree[k].id]
            /\ drv[tree[k].id] = NoDriver
            /\ drv' = [drv EXCEPT ![tree[k].id] = d]
            /\ rebound' = TRUE
            /\ UNCHANGED <<cpufreq, tree, node, modules, file, service, initramfs,
                           gfx, pc, fr, result, log>>

\* PciBus::rescan(): every function of the hardware has its node again.
rescanned(tr) == [f \in Ids(tr) |-> TRUE]

----------------------------------------------------------------------------
(* Graphics::new(). *)

New(t) ==
    /\ pc[t] = "done"
    /\ fr' = [fr EXCEPT ![t] = Frame("new", "", FALSE)]
    /\ rebound' = FALSE
    /\ pc' = pc
    /\ UNCHANGED <<cpufreq, tree, drv, modules, file, service, initramfs>>
    /\ \E stage \in {"bus", "rescan", "all", "ok"} :
          \/ /\ stage = "bus"
             /\ log' = [log EXCEPT ![t] = <<>>]
             /\ node' = node
             /\ gfx' = NoGraphics
             /\ result' = [result EXCEPT ![t] = Err("Io")]
          \/ /\ stage = "rescan"
             /\ log' = [log EXCEPT ![t] = <<Ev("rescan", NoId, "", 1)>>]
             /\ node' = node
             /\ gfx' = NoGraphics
             /\ result' = [result EXCEPT ![t] = Err("Io")]
          \/ /\ stage = "all"
             /\ log' = [log EXCEPT ![t] = <<Ev("rescan", NoId, "", 0),
                                           Ev("all", NoId, "", 1)>>]
             /\ node' = rescanned(tree)
             /\ gfx' = NoGraphics
             /\ result' = [result EXCEPT ![t] = Err("Io")]
          \/ /\ stage = "ok"
             /\ log' = [log EXCEPT ![t] = <<Ev("rescan", NoId, "", 0),
                                           Ev("all", NoId, "", 0)>>]
             /\ node' = rescanned(tree)
             /\ gfx' = new_graphics(tree, node')
             /\ result' = [result EXCEPT ![t] =
                               IF gfx'.ok THEN Ok ELSE Err("Io")]

----------------------------------------------------------------------------
(* Graphics::get_vendor(), get_power(). *)

GetVendor(t) ==
    /\ Begin(t, Frame("get_vendor", "", FALSE))
    /\ log' = [log EXCEPT ![t] = <<>>]
    /\ pc' = pc
    /\ \E readable \in BOOLEAN :
          result' = [result EXCEPT ![t] =
              IF readable THEN [Ok EXCEPT !.vendor = get_vendor(modules)]
              ELSE Err("ModulesFetch")]
    /\ UNCHANGED <<cpufreq, tree, node, drv, modules, file, service, initramfs, gfx>>

GetPower(t) ==
    /\ Begin(t, Frame("get_power", "", FALSE))
    /\ log' = [log EXCEPT ![t] = <<>>]
    /\ pc' = pc
    /\ result' = [result EXCEPT ![t] =
          IF can_switch(gfx) THEN [Ok EXCEPT !.power = get_power(gfx, node)]
          ELSE Err("NotSwitchable")]
    /\ UNCHANGED <<cpufreq, tree, node, drv, modules, file, service, initramfs, gfx>>

----------------------------------------------------------------------------
(* Graphics::set_power(). *)

\* Where set_power goes after switchable_or_fail() succeeded.
power_entry_off(power) == "ub_exists"

power_entry_on(power) == "sp_rescan"

power_entry(power) == IF power THEN "sp_rescan" ELSE "ub_exists"

\* set_power(power), entered as operation op (set_power or auto_power).
EnterSetPower(t, op, power) ==
    /\ Begin(t, [Frame(op, "", power) EXCEPT
                      !.i = 1, !.j = 1, !.node0 = node,
                      !.bound0 = \E k \in DOMAIN gfx.nvidia :
                          \E j \in DOMAIN gfx.nvidia[k].functions :
                              drv[gfx.nvidia[k].functions[j]] # NoDriver])
    /\ log' = [log EXCEPT ![t] = <<>>]
    /\ IF can_switch(gfx)
       THEN /\ pc' = [pc EXCEPT ![t] = power_entry(power)]
            /\ result' = result
       ELSE /\ pc' = pc
            /\ result' = [result EXCEPT ![t] = Err("NotSwitchable")]
    /\ UNCHANGED <<cpufreq, tree, node, drv, modules, file, service, initramfs, gfx>>

SetPower(t) == \E power \in BOOLEAN : EnterSetPower(t, "set_power", power)

SpRescan(t) ==
    /\ pc[t] = "sp_rescan"
    /\ \E ok \in BOOLEAN :
          IF ok
          THEN /\ node' = rescanned(tree)
               /\ Finish(t, Ok, <<Ev("rescan", NoId, "", 0)>>)
          ELSE /\ node' = node
               /\ Finish(t, Err("Rescan"), <<Ev("rescan", NoId, "", 1)>>)
    /\ UNCHANGED <<cpufreq, tree, drv, modules, file, service, initramfs, gfx,
                   rebound>>

\* Result::from_iter(unbinds.chain(removes)): what follows function j of
\* device i in the unbind pass.
ub_next_per_device(g, i, j) ==
    IF j < Len(g.nvidia[i].functions)
    THEN [pc |-> "ub_exists", i |-> i, j |-> j + 1, evs |-> <<>>]
    ELSE [pc |-> "rm_exists", i |-> i, j |-> 1,
          evs |-> <<Ev("unbind_ok", g.nvidia[i].id, "", 0),
                    Ev("remove_begin", g.nvidia[i].id, "", 0)>>]

ub_next_first_fn(g, i, j) ==
    IF i < Len(g.nvidia)
    THEN [pc |-> "ub_exists", i |-> i + 1, j |-> 1,
          evs |-> <<Ev("unbind_ok", g.nvidia[i].id, "", 0)>>]
    ELSE [pc |-> "rm_exists", i |-> 1, j |-> 1,
          evs |-> <<Ev("unbind_ok", g.nvidia[i].id, "", 0),
                    Ev("remove_begin", g.nvidia[1].id, "", 0)>>]

ub_next(g, i, j) ==
    IF j < Len(g.nvidia[i].functions)
    THEN [pc |-> "ub_exists", i |-> i, j |-> j + 1, evs |-> <<>>]
    ELSE IF i < Len(g.nvidia)
    THEN [pc |-> "ub_exists", i |-> i + 1, j |-> 1,
          evs |-> <<Ev("unbind_ok", g.nvidia[i].id, "", 0)>>]
    ELSE [pc |-> "rm_exists", i |-> 1, j |-> 1,
          evs |-> <<Ev("unbind_ok", g.nvidia[i].id, "", 0),
                    Ev("remove_begin", g.nvidia[1].id, "", 0)>>]

\* ... and in the remove pass.
rm_next_first_only(g, i, j) ==
    IF i < Len(g.nvidia)
    THEN [pc |-> "rm_exists", i |-> i + 1, j |-> 1,
          evs |-> <<Ev("remove_ok", g.nvidia[i].id, "", 0),
                    Ev("remove_begin", g.nvidia[i + 1].id, "", 0)>>]
    ELSE [pc |-> "done", i |-> i, j |-> j,
          evs |-> <<Ev("remove_ok", g.nvidia[i].id, "", 0)>>]

rm_next(g, i, j) ==
    IF j < Len(g.nvidia[i].functions)
    THEN [pc |-> "rm_exists", i |-> i, j |-> j + 1, evs |-> <<>>]
    ELSE IF i < Len(g.nvidia)
    THEN [pc |-> "rm_exists", i |-> i + 1, j |-> 1,
          evs |-> <<Ev("remove_ok", g.nvidia[i].id, "", 0),
                    Ev("remove_begin", g.nvidia[i + 1].id, "", 0)>>]
    ELSE [pc |-> "done", i |-> i, j |-> j,
          evs |-> <<Ev("remove_ok", g.nvidia[i].id, "", 0)>>]

Advance(t, nx, evs) ==
    IF nx.pc = "done"
    THEN /\ Finish(t, Ok, evs \o nx.evs)
    ELSE /\ Goto(t, nx.pc, nx.i, nx.j, evs \o nx.evs)

\* func.driver(): the driver bound to f, NoDriver for NotFound.
driver_none(f) == NoDriver

driver(f) == IF node[f] THEN drv[f] ELSE NoDriver

\* GraphicsDevice::unbind(): func.path().exists()
UbExists(t) ==
    /\ pc[t] = "ub_exists"
    /\ IF node[CurFn(t)]
       THEN Goto(t, "ub_driver", fr[t].i, fr[t].j, <<>>)
       ELSE Advance(t, ub_next(gfx, fr[t].i, fr[t].j), <<>>)
    /\ UNCHANGED <<cpufreq, tree, node, drv, modules, file, service, initramfs, gfx,
                   rebound>>

\* GraphicsDevice::unbind(): func.driver()
UbDriver(t) ==
    /\ pc[t] = "ub_driver"
    /\ \E ok \in BOOLEAN :
          IF ~ok
          THEN Finish(t, [Err("PciDriver") EXCEPT !.device = CurDev(t).id],
                      <<Ev("driver", CurFn(t), "unbind", 1)>>)
          ELSE IF driver(CurFn(t)) # NoDriver
          THEN /\ pc' = [pc EXCEPT ![t] = "ub_write"]
               /\ fr' = [fr EXCEPT ![t].seen = driver(CurFn(t))]
               /\ UNCHANGED <<result, log>>
          ELSE Advance(t, ub_next(gfx, fr[t].i, fr[t].j), <<>>)
    /\ UNCHANGED <<cpufreq, tree, node, drv, modules, file, service, initramfs, gfx,
                   rebound>>

\* driver.unbind(&func).map_err(Unbind)?: what follows the unbind write.
after_unbind_ignored(t, ok, ev) ==
    Advance(t, ub_next(gfx, fr[t].i, fr[t].j), <<ev>>)

after_unbind(t, ok, ev) ==
    IF ok
    THEN Advance(t, ub_next(gfx, fr[t].i, fr[t].j), <<ev>>)
    ELSE Finish(t, [Err("Unbind") EXCEPT !.func = CurFn(t),
                                         !.driver = fr[t].seen], <<ev>>)

\* GraphicsDevice::unbind(): driver.unbind(&func); the kernel rejects the
\* write when the function is no longer bound to that driver.
UbWrite(t) ==
    /\ pc[t] = "ub_write"
    /\ \E ok \in BOOLEAN :
          IF ok /\ node[CurFn(t)] /\ drv[CurFn(t)] = fr[t].seen
          THEN /\ drv' = [drv EXCEPT ![CurFn(t)] = NoDriver]
               /\ after_unbind(t, TRUE,
                               Ev("unbind", CurFn(t), fr[t].seen, 0))
          ELSE /\ drv' = drv
               /\ after_unbind(t, FALSE,
                               Ev("unbind", CurFn(t), fr[t].seen, 1))
    /\ UNCHANGED <<cpufreq, tree, node, modules, file, service, initramfs, gfx,
                   rebound>>

\* GraphicsDevice::remove(): func.path().exists()
RmExists(t) ==
    /\ pc[t] = "rm_exists"
    /\ IF node[CurFn(t)]
       THEN Goto(t, "rm_driver", fr[t].i, fr[t].j, <<>>)
       ELSE Advance(t, rm_next(gfx, fr[t].i, fr[t].j), <<>>)
    /\ UNCHANGED <<cpufreq, tree, node, drv, modules, file, service, initramfs, gfx,
                   rebound>>

\* GraphicsDevice::remove(): what follows a driver query that found d.
rm_after_query_skip(t, d) ==
    IF d # NoDriver
    THEN Advance(t, rm_next(gfx, fr[t].i, fr[t].j), <<>>)
    ELSE Goto(t, "rm_write", fr[t].i, fr[t].j, <<>>)

rm_after_query(t, d) ==
    IF d # NoDriver
    THEN Finish(t, [Err("DeviceInUse") EXCEPT
                        !.func = CurFn(t), !.driver = d], <<>>)
    ELSE Goto(t, "rm_write", fr[t].i, fr[t].j, <<>>)

\* GraphicsDevice::remove(): func.driver()
RmDriver(t) ==
    /\ pc[t] = "rm_driver"
    /\ \E ok \in BOOLEAN :
          IF ~ok
          THEN Finish(t, [Err("PciDriver") EXCEPT !.device = CurDev(t).id],
                      <<Ev("driver", CurFn(t), "remove", 1)>>)
          ELSE rm_after_query(t, driver(CurFn(t)))
    /\ UNCHANGED <<cpufreq, tree, node, drv, modules, file, service, initramfs, gfx,
                   rebound>>

\* GraphicsDevice::remove(): func.remove(); the write fails when the node
\* is gone (code 2) or the kernel rejects it (code 1), and a successful
\* removal detaches whatever driver is bound.
RmWrite(t) ==
    /\ pc[t] = "rm_write"
    /\ \E ok \in BOOLEAN :
          IF ok /\ node[CurFn(t)]
          THEN /\ node' = [node EXCEPT ![CurFn(t)] = FALSE]
               /\ drv' = [drv EXCEPT ![CurFn(t)] = NoDriver]
               /\ Advance(t, rm_next(gfx, fr[t].i, fr[t].j),
                          <<Ev("remove", CurFn(t), drv[CurFn(t)], 0)>>)
          ELSE /\ node' = node
               /\ drv' = drv
               /\ Finish(t, [Err("Remove") EXCEPT !.device = CurDev(t).id],
                         <<Ev("remove", CurFn(t), drv[CurFn(t)],
                              IF node[CurFn(t)] THEN 1 ELSE 2)>>)
    /\ UNCHANGED <<cpufreq, tree, modules, file, service, initramfs, gfx, rebound>>

\* The argument auto_power() hands to set_power(), given get_vendor().
auto_power_arg_inverted(vendor) == vendor = "intel"

auto_power_arg(vendor) == vendor = "nvidia"

\* Graphics::auto_power()
AutoPower(t) ==
    \E readable \in BOOLEAN :
        IF readable
        THEN EnterSetPower(t, "auto_power",
                           auto_power_arg(get_vendor(modules)))
        ELSE /\ Begin(t, Frame("auto_power", "", FALSE))
             /\ log' = [log EXCEPT ![t] = <<>>]
             /\ pc' = pc
             /\ result' = [result EXCEPT ![t] = Err("ModulesFetch")]
             /\ UNCHANGED <<cpufreq, tree, node, drv, modules, file, service,
                            initramfs, gfx>>

----------------------------------------------------------------------------
(* Graphics::set_vendor(). *)

template_nocase(vendor) ==
    IF vendor \in {"nvidia", "NVIDIA"} THEN MODPROBE_NVIDIA
    ELSE MODPROBE_INTEL

\* The template written for a vendor.
template(vendor) ==
    IF vendor = "nvidia" THEN MODPROBE_NVIDIA ELSE MODPROBE_INTEL

\* The systemctl verb for a vendor.
action(vendor) == IF vendor = "nvidia" THEN "enable" ELSE "disable"

\* What a write that failed midway can leave of content c: the lines
\* written before the failure.
PartialWrites(c) ==
    {SubSeq(c, 1, k) : k \in 0..(Len(c) - 1) \cap 0..MaxPartial}

SetVendor(t) ==
    \E vendor \in Vendors :
        /\ Begin(t, Frame("set_vendor", vendor, FALSE))
        /\ log' = [log EXCEPT ![t] = <<>>]
        /\ IF can_switch(gfx)
           THEN /\ pc' = [pc EXCEPT ![t] = "sv_open"]
                /\ result' = result
           ELSE /\ pc' = pc
                /\ result' = [result EXCEPT ![t] = Err("NotSwitchable")]
        /\ UNCHANGED <<cpufreq, tree, node, drv, modules, file, service, initramfs,
                       gfx>>

\* OpenOptions::new().create(true).truncate(true).write(true).open()
SvOpen(t) ==
    /\ pc[t] = "sv_open"
    /\ \E ok \in BOOLEAN :
          IF ok
          THEN /\ file' = <<>>
               /\ Goto(t, "sv_write", 0, 0, <<Ev("open", NoId, "", 0)>>)
          ELSE /\ file' = file
               /\ Finish(t, Err("ModprobeFileOpen"),
                         <<Ev("open", NoId, "", 1)>>)
    /\ UNCHANGED <<cpufreq, tree, node, drv, modules, service, initramfs, gfx,
                   rebound>>

\* file.write_all(template) and then file.sync_all()
\* result.and_then(|_| file.sync_all()).map_err(ModprobeFileWrite)?
after_write_unchecked(t, ok, evs) == Goto(t, "sv_systemctl", 0, 0, evs)

after_write_warn(t, ok, evs) ==
    IF ok THEN Goto(t, "sv_systemctl", 0, 0, evs)
    ELSE Goto(t, "sv_initramfs", 0, 0, evs)

after_write(t, ok, evs) ==
    IF ok THEN Goto(t, "sv_systemctl", 0, 0, evs)
    ELSE Finish(t, Err("ModprobeFileWrite"), evs)

SvWrite(t) ==
    /\ pc[t] = "sv_write"
    /\ \/ /\ file' = template(fr[t].vendor)
          /\ after_write(t, TRUE,
                  <<Ev("write", NoId, "", 0), Ev("sync", NoId, "", 0)>>)
       \/ /\ file' \in PartialWrites(template(fr[t].vendor))
          /\ after_write(t, FALSE, <<Ev("write", NoId, "", 1)>>)
       \/ /\ file' = template(fr[t].vendor)
          /\ after_write(t, FALSE,
                  <<Ev("write", NoId, "", 0), Ev("sync", NoId, "", 1)>>)
    /\ UNCHANGED <<cpufreq, tree, node, drv, modules, service, initramfs, gfx,
                   rebound>>

\* What follows the systemctl command that ended with status st.
after_systemctl_strict(t, st, ev) ==
    IF st = 0
    THEN Goto(t, "sv_initramfs", 0, 0, <<ev>>)
    ELSE Finish(t, [Err("Command") EXCEPT !.cmd = "systemctl"], <<ev>>)

after_systemctl_powers_off(t, st, ev) == Goto(t, "ub_exists", 1, 1, <<ev>>)

after_systemctl(t, st, ev) ==
    IF st = SpawnErr
    THEN Finish(t, [Err("Command") EXCEPT !.cmd = "systemctl"], <<ev>>)
    ELSE Goto(t, "sv_initramfs", 0, 0, <<ev>>)

\* systemctl enable|disable nvidia-fallback.service; it cannot succeed
\* when the unit does not exist.
SvSystemctl(t) ==
    /\ pc[t] = "sv_systemctl"
    /\ \E st \in ExitCodes \cup {SpawnErr} :
          /\ st = 0 => service # "absent"
          /\ service' = IF st # 0 THEN service
                        ELSE IF action(fr[t].vendor) = "enable"
                             THEN "enabled" ELSE "disabled"
          /\ after_systemctl(t, st,
                 Ev("systemctl", NoId, action(fr[t].vendor), st))
    /\ UNCHANGED <<cpufreq, tree, node, drv, modules, file, initramfs, gfx, rebound>>

\* What set_vendor returns when update-initramfs ended with status st.
initramfs_result(st) ==
    IF st = SpawnErr THEN [Err("Command") EXCEPT !.cmd = "update-initramfs"]
    ELSE IF st # 0 THEN [Err("UpdateInitramfs") EXCEPT !.status = st]
    ELSE Ok

\* update-initramfs -u: a successful run builds the image from the
\* modprobe file as it is now.
SvInitramfs(t) ==
    /\ pc[t] = "sv_initramfs"
    /\ \E st \in ExitCodes \cup {SpawnErr} :
          /\ initramfs' = IF st = 0 THEN file ELSE initramfs
          /\ Finish(t, initramfs_result(st),
                    <<Ev("update-initramfs", NoId, "-u", st)>>)
    /\ UNCHANGED <<cpufreq, tree, node, drv, modules, file, service, gfx, rebound>>

----------------------------------------------------------------------------
(* cpufreq (src/src/cpufreq.rs).  A sysfs file is a sequence of            *)
(* characters, Unread when it cannot be read; cpufreq.writes are the       *)
(* write_value() calls made, in order.                                     *)

Unread == <<"(unreadable)">>

Digits == <<"0", "1", "2", "3", "4", "5", "6", "7", "8", "9">>

None == 0 - 1

\* What the kernel prints for the number n.
RECURSIVE ToChars(_)
ToChars(n) ==
    IF n < 10 THEN <<Digits[n + 1]>>
    ELSE ToChars(n \div 10) \o <<Digits[(n % 10) + 1]>>

\* /sys/devices/system/cpu/possible of a machine whose CPUs are 0..n.
PossibleFile(n) ==
    IF n = 0 THEN <<"0", "\n">> ELSE <<"0", "-">> \o ToChars(n) \o <<"\n">>

FreqFile(f) == ToChars(f) \o <<"\n">>

\* str::trim_end()
RECURSIVE trim_end(_)
trim_end(str) ==
    IF str # <<>> /\ str[Len(str)] \in {"\n", " "}
    THEN trim_end(SubSeq(str, 1, Len(str) - 1))
    ELSE str

\* str::parse::<usize>().ok()
RECURSIVE parse_usize(_)
parse_usize(str) ==
    IF str = <<>> THEN None
    ELSE LET c == str[Len(str)]
             rest == SubSeq(str, 1, Len(str) - 1)
         IN  IF \A d \in DOMAIN Digits : Digits[d] # c THEN None
             ELSE IF rest = <<>>
                  THEN (CHOOSE d \in DOMAIN Digits : Digits[d] = c) - 1
             ELSE IF parse_usize(rest) = None THEN None
             ELSE parse_usize(rest) * 10
                     + (CHOOSE d \in DOMAIN Digits : Digits[d] = c) - 1

\* str::split('-'): the parts of str between the dashes.
RECURSIVE split_dash(_)
split_dash(str) ==
    IF \A k \in DOMAIN str : str[k] # "-" THEN <<str>>
    ELSE LET k == CHOOSE i \in DOMAIN str :
                      str[i] = "-" /\ \A h \in 1..(i - 1) : str[h] # "-"
         IN  <<SubSeq(str, 1, k - 1)>>
                 \o split_dash(SubSeq(str, k + 1, Len(str)))

\* info.split('-').nth(1)?.trim_end().parse::<usize>().ok()
num_cpus(c) ==
    IF c.possible = Unread THEN None
    ELSE IF Len(split_dash(c.possible)) < 2 THEN None
    ELSE parse_usize(trim_end(split_dash(c.possible)[2]))

frequency_minimum(c) ==
    IF c.min = Unread THEN None ELSE parse_usize(trim_end(c.min))

frequency_maximum(c) ==
    IF c.max = Unread THEN None ELSE parse_usize(trim_end(c.max))

\* set_frequency_minimum, set_frequency_maximum and set_governor for one
\* CPU: three write_value() calls.
WriteValue(cpu, attr, freq, gov) ==
    [cpu |-> cpu, attr |-> attr, freq |-> freq, gov |-> gov]

set_cpu(cpu, min, max, gov) ==
    <<WriteValue(cpu, "scaling_min_freq", min, ""),
      WriteValue(cpu, "scaling_max_freq", max, ""),
      WriteValue(cpu, "scaling_governor", 0, gov)>>

\* for cpu in from..cpus { ... }
RECURSIVE for_cpus(_, _, _, _, _)
for_cpus(from, cpus, min, max, gov) ==
    IF from >= cpus THEN <<>>
    ELSE set_cpu(from, min, max, gov)
            \o for_cpus(from + 1, cpus, min, max, gov)

\* num_cpus().zip(frequency_minimum().zip(frequency_maximum()))
zipped(c) ==
    /\ num_cpus(c) # None
    /\ frequency_minimum(c) # None
    /\ frequency_maximum(c) # None

performance(c) ==
    IF zipped(c)
    THEN for_cpus(0, num_cpus(c), frequency_minimum(c),
                  frequency_maximum(c), "performance\n")
    ELSE <<>>

powersave(c) ==
    IF zipped(c)
    THEN for_cpus(0, num_cpus(c), frequency_minimum(c),
                  frequency_maximum(c) \div 2, "powersave\n")
    ELSE <<>>

NoCpufreq ==
    [possible |-> Unread, min |-> Unread, max |-> Unread,
     op |-> "", writes |-> <<>>]

Performance ==
    /\ cpufreq' = [cpufreq EXCEPT !.op = "performance",
                                  !.writes = performance(cpufreq)]
    /\ UNCHANGED <<tree, node, drv, modules, file, service, initramfs, gfx,
                   pc, fr, result, log, rebound>>

Powersave ==
    /\ cpufreq' = [cpufreq EXCEPT !.op = "powersave",
                                  !.writes = powersave(cpufreq)]
    /\ UNCHANGED <<tree, node, drv, modules, file, service, initramfs, gfx,
                   pc, fr, result, log, rebound>>

----------------------------------------------------------------------------
(* Specifications. *)

\* The state after Graphics::new() succeeded on a device tree tr.
Constructed(tr) ==
    /\ tree = tr
    /\ node = rescanned(tr)
    /\ drv = [f \in Ids(tr) |-> NoDriver]
    /\ gfx = new_graphics(tr, node)
    /\ gfx.ok
    /\ pc = [t \in Threads |-> "done"]
    /\ fr = [t \in Threads |-> Frame("new", "", FALSE)]
    /\ result = [t \in Threads |-> Ok]
    /\ log = [t \in Threads |-> <<>>]
    /\ rebound = FALSE

\* Any small machine, with or without a modprobe file written by someone
\* else and with or without the fallback service installed.
Init ==
    /\ \E tr \in SmallTrees : Constructed(tr)
    /\ modules \in SmallModuleSets
    /\ file \in {NoFile, OtherContent}
    /\ initramfs = file
    /\ service \in {"disabled", "absent"}
    /\ cpufreq = NoCpufreq

\* A switchable laptop; the boot preference is left alone.
InitPower ==
    /\ \E tr \in LaptopTrees : Constructed(tr)
    /\ modules \in ModuleSets
    /\ file = MODPROBE_NVIDIA
    /\ initramfs = file
    /\ service = "enabled"
    /\ cpufreq = NoCpufreq

Call(t) ==
    \/ New(t)
    \/ GetVendor(t)
    \/ GetPower(t)
    \/ SetPower(t)
    \/ AutoPower(t)
    \/ SetVendor(t)

Step(t) ==
    \/ SpRescan(t)
    \/ UbExists(t)
    \/ UbDriver(t)
    \/ UbWrite(t)
    \/ RmExists(t)
    \/ RmDriver(t)
    \/ RmWrite(t)
    \/ SvOpen(t)
    \/ SvWrite(t)
    \/ SvSystemctl(t)
    \/ SvInitramfs(t)

Next ==
    \/ Call(Main)
    \/ Step(Main)
    \/ KernelBind

Spec == Init /\ [][Next]_vars

PowerCall(t) ==
    \/ New(t)
    \/ GetVendor(t)
    \/ GetPower(t)
    \/ SetPower(t)
    \/ AutoPower(t)

PowerStep(t) ==
    \/ SpRescan(t)
    \/ UbExists(t)
    \/ UbDriver(t)
    \/ UbWrite(t)
    \/ RmExists(t)
    \/ RmDriver(t)
    \/ RmWrite(t)

NextPower ==
    \/ PowerCall(Main)
    \/ PowerStep(Main)
    \/ KernelBind

SpecPower == InitPower /\ [][NextPower]_vars

\* Two callers use the same Graphics object with no lock between them:
\* the main caller powers the GPU off, the other one powers it on or off.
RaceCall(t) ==
    IF t = Main THEN EnterSetPower(t, "set_power", FALSE) ELSE SetPower(t)

NextRace ==
    \/ \E t \in Threads : RaceCall(t)
    \/ \E t \in Threads : PowerStep(t)
    \/ KernelBind

\* A switchable laptop with one NVIDIA GPU of up to MaxRaceFuncs
\* functions and the proprietary driver loaded.
InitRace ==
    /\ \E n \in 1..MaxRaceFuncs : Constructed(MkTree(TRUE, <<n>>, 262912))
    /\ modules = {"snd_hda_intel", "nvidia"}
    /\ file = MODPROBE_NVIDIA
    /\ initramfs = file
    /\ service = "enabled"
    /\ cpufreq = NoCpufreq

SpecRace == InitRace /\ [][NextRace]_vars

\* Graphics::new() on any device tree.
InitDiscover ==
    /\ \E cv \in AnyTrees : tree = AnyTree(cv)
    /\ node = rescanned(tree)
    /\ drv = [f \in Ids(tree) |-> NoDriver]
    /\ modules = {"snd_hda_intel"}
    /\ file = NoFile
    /\ initramfs = file
    /\ service = "absent"
    /\ gfx = NoGraphics
    /\ pc = [t \in Threads |-> "done"]
    /\ fr = [t \in Threads |-> Frame("", "", FALSE)]
    /\ result = [t \in Threads |-> Ok]
    /\ log = [t \in Threads |-> <<>>]
    /\ rebound = FALSE
    /\ cpufreq = NoCpufreq

NextDiscover == New(Main)

SpecDiscover == InitDiscover /\ [][NextDiscover]_vars

\* The cpufreq files of a machine with CPUs 0..n, for any n up to MaxCpu,
\* readable or not, before performance() or powersave() is called.
CpuInputs ==
    [possible : {Unread} \cup {PossibleFile(n) : n \in 0..MaxCpu},
     min : {Unread, FreqFile(800000), FreqFile(1200000)},
     max : {Unread, FreqFile(3000000), FreqFile(3400001)},
     op : {""}, writes : {<<>>}]

InitCpu ==
    /\ Constructed(MkTree(TRUE, <<1>>, 262912))
    /\ modules = {"snd_hda_intel"}
    /\ file = NoFile
    /\ initramfs = file
    /\ service = "absent"
    /\ cpufreq \in CpuInputs

NextCpu ==
    \/ Performance
    \/ Powersave

SpecCpu == InitCpu /\ [][NextCpu]_vars

----------------------------------------------------------------------------
(* What the properties below read: the main caller's call. *)

mpc == pc[Main]

mfr == fr[Main]

mres == result[Main]

mlog == log[Main]

\* The call in hand (or the last one) is set_power(false).
PowerOff == gfx.ok /\ mfr.op = "set_power" /\ ~mfr.power

\* The positions of log entries of kind ev, and of those that succeeded.
At(ev) == {p \in DOMAIN mlog : mlog[p].ev = ev}

OkAt(ev) == {p \in At(ev) : mlog[p].code = 0}

\* The functions of the NVIDIA devices, in the order set_power(false)
\* visits them in one pass.
RECURSIVE Flat(_)
Flat(devs) ==
    IF devs = <<>> THEN <<>>
    ELSE Flat(SubSeq(devs, 1, Len(devs) - 1)) \o devs[Len(devs)].functions

NvFuncs == {Flat(gfx.nvidia)[k] : k \in DOMAIN Flat(gfx.nvidia)}

\* The place in Flat(gfx.nvidia) of function j of device i.
FlatPos(i, j) == Len(Flat(SubSeq(gfx.nvidia, 1, i - 1))) + j

----------------------------------------------------------------------------
\* C1: in every set_power(false) call, when the remove() of any NVIDIA
\* device starts, and when any removal write is issued, the unbind() of
\* every NVIDIA device has already returned Ok, and from then on the call
\* issues no unbind write and starts no unbind.
C1_UnbindsBeforeRemoves ==
    PowerOff =>
        \A q \in At("remove_begin") \cup At("remove") :
            /\ \A k \in DOMAIN gfx.nvidia :
                  \E p \in 1..(q - 1) :
                      mlog[p] = Ev("unbind_ok", gfx.nvidia[k].id, "", 0)
            /\ \A r \in q..Len(mlog) :
                  mlog[r].ev \notin {"unbind", "unbind_ok"}

\* A call that unbound functions of two NVIDIA devices and then removed one.
C1_Witness ==
    /\ PowerOff
    /\ Len(gfx.nvidia) >= 2
    /\ \E p \in OkAt("unbind"), q \in OkAt("unbind"), r \in OkAt("remove") :
          /\ p < q /\ q < r
          /\ slot_of(mlog[p].id) # slot_of(mlog[q].id)

----------------------------------------------------------------------------
\* The call in hand (or the last one) is one that switchable_or_fail()
\* guards.
Gated == gfx.ok /\ mfr.op \in {"set_vendor", "set_power", "get_power"}

BothLists == Len(gfx.intel) > 0 /\ Len(gfx.nvidia) > 0

\* C2, the result: can_switch() is true iff the Intel and the NVIDIA list
\* both hold a device, and without both a guarded call has returned
\* NotSwitchable having issued no system call and no command.
C2_NotSwitchable ==
    gfx.ok =>
        /\ can_switch(gfx) <=> BothLists
        /\ (Gated /\ ~BothLists) =>
              /\ mpc = "done"
              /\ mres = Err("NotSwitchable")
              /\ mlog = <<>>

\* C2, the step: without both lists, a step of a guarded call leaves the
\* nodes, the bindings, the modules, the modprobe file, the service flag and
\* the initramfs as they are.
C2_NoMutation ==
    (/\ <<pc, fr, result, log>>' # <<pc, fr, result, log>>
     /\ Gated' /\ ~BothLists') =>
        UNCHANGED <<node, drv, modules, file, service, initramfs>>

\* C2: can_switch() is true iff both lists are non-empty, and when it is
\* false set_vendor, set_power and get_power return NotSwitchable and
\* change nothing.
C2_Gate == [](C2_NotSwitchable) /\ [][C2_NoMutation]_vars

\* set_power refused on a machine with no Intel GPU whose NVIDIA function
\* has a driver, which stays bound.
C2_Witness ==
    /\ gfx.ok /\ mfr.op = "set_power" /\ ~mfr.power
    /\ Len(gfx.intel) = 0 /\ Len(gfx.nvidia) > 0
    /\ mres = Err("NotSwitchable")
    /\ \E f \in NvFuncs : drv[f] # NoDriver

----------------------------------------------------------------------------
\* How many devices of a list have the address id.
Count(list, id) == Cardinality({k \in DOMAIN list : list[k].id = id})

\* C3: after a successful Graphics::new(), every PCI function of display
\* class (class code 0x03xxxx) is a Graphics Device of exactly one list,
\* the one its vendor id selects, and a function of any other class is a
\* Graphics Device of no list; the lists hold nothing else.
C3_Classified ==
    gfx.ok =>
        /\ \A k \in DOMAIN tree :
              LET d == tree[k]
                  amd == Count(gfx.amd, d.id)
                  intel == Count(gfx.intel, d.id)
                  nvidia == Count(gfx.nvidia, d.id)
                  other == Count(gfx.other, d.id)
              IN  IF d.class \in 196608..262143
                  THEN /\ amd + intel + nvidia + other = 1
                       /\ amd = 1 <=> d.vendor = 4098
                       /\ intel = 1 <=> d.vendor = 32902
                       /\ nvidia = 1 <=> d.vendor = 4318
                  ELSE amd + intel + nvidia + other = 0
        /\ \A list \in {gfx.amd, gfx.intel, gfx.nvidia, gfx.other} :
              \A k \in DOMAIN list : list[k].id \in Ids(tree)

\* A tree with an NVIDIA GPU, an AMD GPU and an audio function, classified.
C3_Witness ==
    /\ gfx.ok
    /\ mfr.op = "new"
    /\ Len(gfx.nvidia) = 1
    /\ Len(gfx.amd) = 1
    /\ \E k \in DOMAIN tree : tree[k].class = 262912

----------------------------------------------------------------------------
\* C4 as claimed: when set_power(false) starts with no function of an
\* NVIDIA device bound to a driver (and none gets bound during the call) it
\* returns Ok, issues no unbind write, removes every function that
\* existed, and get_power() is then false.
C4_AlwaysSucceeds ==
    (PowerOff /\ mpc = "done" /\ ~mfr.bound0 /\ ~rebound) =>
        /\ mres = Ok
        /\ At("unbind") = {}
        /\ {mlog[q].id : q \in OkAt("remove")} = {f \in NvFuncs : mfr.node0[f]}
        /\ ~get_power(gfx, node)

\* C4, amended: such a call issues no unbind write; if no driver query
\* fails and no removal write is rejected it returns Ok, having removed
\* exactly the functions that existed, and get_power() is then false,
\* otherwise it returns PciDriver or Remove.  Started with every function
\* already absent it returns Ok, issues no system call at all, and
\* get_power() stays false.
C4_PowerOffUnbound ==
    (PowerOff /\ mpc = "done" /\ ~mfr.bound0 /\ ~rebound) =>
        /\ At("unbind") = {}
        /\ IF At("driver") = {} /\ At("remove") = OkAt("remove")
           THEN /\ mres = Ok
                /\ {mlog[q].id : q \in OkAt("remove")}
                      = {f \in NvFuncs : mfr.node0[f]}
                /\ ~get_power(gfx, node)
           ELSE mres.err \in {"PciDriver", "Remove"}
        /\ (\A f \in NvFuncs : ~mfr.node0[f]) =>
              /\ mres = Ok
              /\ At("remove") \cup At("rescan") \cup At("driver") = {}
              /\ ~get_power(gfx, node)

\* Such a call that removed two functions.
C4_Witness ==
    /\ PowerOff /\ mpc = "done" /\ ~mfr.bound0 /\ ~rebound
    /\ mres = Ok
    /\ Cardinality(OkAt("remove")) >= 2
    /\ ~get_power(gfx, node)

----------------------------------------------------------------------------
\* C5, the result: a set_power(false) that returned DeviceInUse names the
\* function it stopped at and the driver bound to it; it issued removal
\* writes only for functions it visited before that one, never for that
\* one, and what it removed is still absent.
C5_InUseResult ==
    (PowerOff /\ mpc = "done" /\ mres.err = "DeviceInUse") =>
        LET here == FlatPos(mfr.i, mfr.j)
        IN  /\ mres.func = Flat(gfx.nvidia)[here]
            /\ node[mres.func]
            /\ drv[mres.func] = mres.driver
            /\ drv[mres.func] # NoDriver
            /\ At("remove") = OkAt("remove")
            /\ \A q \in At("remove") :
                  /\ mlog[q].id # mres.func
                  /\ \E k \in 1..(here - 1) :
                        Flat(gfx.nvidia)[k] = mlog[q].id
                  /\ ~node[mlog[q].id]

\* C5, the step: a driver query of the remove pass that finds a driver
\* bound to an existing function ends the call with DeviceInUse for that
\* function and that driver, and writes nothing.
C5_InUseStep ==
    (/\ PowerOff
     /\ mpc = "rm_driver"
     /\ mpc' # "rm_driver"
     /\ node[CurFn(Main)]
     /\ drv[CurFn(Main)] # NoDriver
     /\ At("driver")' = At("driver")) =>
        /\ mpc' = "done"
        /\ mres' = [Err("DeviceInUse") EXCEPT
                        !.func = CurFn(Main), !.driver = drv[CurFn(Main)]]
        /\ mlog' = mlog
        /\ UNCHANGED <<node, drv>>

\* C5: during the remove pass a function found bound to a driver ends the
\* call with DeviceInUse naming it and the driver, with no removal write
\* for it or for anything later, and earlier removals stay.
C5_DeviceInUse == [](C5_InUseResult) /\ [][C5_InUseStep]_vars

\* A call that stopped with DeviceInUse while a later function still exists.
C5_Witness ==
    /\ PowerOff /\ mpc = "done" /\ mres.err = "DeviceInUse"
    /\ \E k \in DOMAIN Flat(gfx.nvidia) :
          /\ k > FlatPos(mfr.i, mfr.j)
          /\ Flat(gfx.nvidia)[k] # mres.func
          /\ node[Flat(gfx.nvidia)[k]]

----------------------------------------------------------------------------
\* C6: a rejected unbind write, and a failed driver query, is the last
\* thing its set_power(false) call does, and the call returns that error;
\* when the error comes from unbind() no remove() has started and no
\* removal write was issued, the unbind writes issued are for functions
\* visited before the failing one, and those functions keep no driver
\* (unless the kernel binds one again).
C6_UnbindFailure ==
    PowerOff =>
        /\ \A q \in At("unbind") \ OkAt("unbind") :
              /\ mpc = "done"
              /\ q = Len(mlog)
              /\ mres = [Err("Unbind") EXCEPT !.func = mlog[q].id,
                                              !.driver = mlog[q].arg]
              /\ mlog[q].id = CurFn(Main)
        /\ \A q \in At("driver") :
              /\ mpc = "done"
              /\ q = Len(mlog)
              /\ mres = [Err("PciDriver") EXCEPT !.device = CurDev(Main).id]
              /\ mlog[q].id = CurFn(Main)
        /\ (/\ mpc = "done"
            /\ \/ mres.err = "Unbind"
               \/ /\ mres.err = "PciDriver"
                  /\ mlog[Len(mlog)] = Ev("driver", CurFn(Main), "unbind", 1))
           =>
              /\ At("remove") \cup At("remove_begin") = {}
              /\ \A q \in OkAt("unbind") :
                    /\ \E k \in 1..(FlatPos(mfr.i, mfr.j) - 1) :
                          Flat(gfx.nvidia)[k] = mlog[q].id
                    /\ ~rebound => drv[mlog[q].id] = NoDriver

\* A call that unbound one function and had the next unbind rejected.
C6_Witness ==
    /\ PowerOff /\ mpc = "done" /\ mres.err = "Unbind" /\ ~rebound
    /\ OkAt("unbind") # {}
    /\ drv[mres.func] = mres.driver

----------------------------------------------------------------------------
\* The call in hand (or the last one) is set_vendor.
InSetVendor == gfx.ok /\ mfr.op = "set_vendor"

Rank(ev) ==
    CASE ev = "open" -> 1
      [] ev = "write" -> 2
      [] ev = "sync" -> 3
      [] ev = "systemctl" -> 4
      [] ev = "update-initramfs" -> 5
      [] OTHER -> 0

\* The content set_vendor(vendor) is to leave in the modprobe file.
Wanted(vendor) == IF vendor = "nvidia" THEN MODPROBE_NVIDIA ELSE MODPROBE_INTEL

\* C7: a set_vendor call opens the file, writes it, syncs it, runs
\* systemctl and runs update-initramfs in this order and at most once
\* each; systemctl and update-initramfs are started only after the open,
\* the write and the sync succeeded, with the file holding the template of
\* the requested vendor, update-initramfs only after systemctl has run, and
\* a successful update-initramfs builds the image from that template.
C7_StepOrder ==
    InSetVendor =>
        /\ \A q \in DOMAIN mlog : Rank(mlog[q].ev) > 0
        /\ \A p, q \in DOMAIN mlog :
              p < q => Rank(mlog[p].ev) < Rank(mlog[q].ev)
        /\ (At("systemctl") \cup At("update-initramfs") # {}) =>
              /\ OkAt("open") # {} /\ OkAt("write") # {} /\ OkAt("sync") # {}
              /\ file = Wanted(mfr.vendor)
        /\ At("update-initramfs") # {} =>
              \E p \in At("systemctl") : mlog[p].code \in ExitCodes
        /\ OkAt("update-initramfs") # {} => initramfs = Wanted(mfr.vendor)

\* A set_vendor("intel") that went through all its steps.
C7_Witness ==
    /\ InSetVendor /\ mpc = "done" /\ mfr.vendor = "intel"
    /\ OkAt("systemctl") # {}
    /\ OkAt("update-initramfs") # {}
    /\ initramfs = MODPROBE_INTEL

----------------------------------------------------------------------------
\* C8 as claimed: whatever way the systemctl command fails, set_vendor goes
\* on to run update-initramfs, and returns Ok iff that command exits
\* with success.
C8_ToggleNeverFatal ==
    (InSetVendor /\ mpc = "done" /\ At("systemctl") # {}) =>
        /\ At("update-initramfs") # {}
        /\ mres = Ok <=> OkAt("update-initramfs") # {}

\* C8, amended: when systemctl ran, whatever its exit status, set_vendor
\* runs update-initramfs and returns Ok iff that command exits with
\* success, UpdateInitramfs with the exit status when it exits with
\* another one; when systemctl could not be run set_vendor returns Command
\* for systemctl and does not run update-initramfs.
C8_ExitStatusNeverFatal ==
    (InSetVendor /\ mpc = "done") =>
        \A p \in At("systemctl") :
            IF mlog[p].code = SpawnErr
            THEN /\ mres = [Err("Command") EXCEPT !.cmd = "systemctl"]
                 /\ At("update-initramfs") = {}
            ELSE /\ At("update-initramfs") # {}
                 /\ \A q \in At("update-initramfs") :
                       /\ mres = Ok <=> mlog[q].code = 0
                       /\ mlog[q].code \in ExitCodes \ {0} =>
                             mres = [Err("UpdateInitramfs") EXCEPT
                                         !.status = mlog[q].code]
                       /\ mlog[q].code = SpawnErr =>
                             mres = [Err("Command") EXCEPT
                                         !.cmd = "update-initramfs"]

\* systemctl exited with a failure status and set_vendor returned Ok.
C8_Witness ==
    /\ InSetVendor /\ mpc = "done"
    /\ \E p \in At("systemctl") : mlog[p].code \in ExitCodes \ {0}
    /\ mres = Ok

----------------------------------------------------------------------------
\* C9, the result: once a set_vendor call has written and synced the file,
\* the file is the header-only template if the vendor argument is "nvidia"
\* and the blacklist template otherwise, whatever it held before.
C9_FileIsTemplate ==
    (InSetVendor /\ OkAt("sync") # {}) =>
        /\ file = Wanted(mfr.vendor)
        /\ file = <<HEADER>> <=> mfr.vendor = "nvidia"
        /\ file \in {MODPROBE_NVIDIA, MODPROBE_INTEL}

\* C9, the step: only the open and the write of a set_vendor call change
\* the file.
C9_OnlySetVendorWrites ==
    file' # file => (InSetVendor /\ mpc \in {"sv_open", "sv_write"})

\* C9: after set_vendor calls whose write succeeds the file is the
\* template selected by the vendor argument of the most recent one.
C9_Template == [](C9_FileIsTemplate) /\ [][C9_OnlySetVendorWrites]_vars

\* set_vendor("NVIDIA") left the blacklist template.
C9_Witness ==
    /\ InSetVendor /\ mpc = "done" /\ mfr.vendor = "NVIDIA"
    /\ mres = Ok
    /\ file = MODPROBE_INTEL

----------------------------------------------------------------------------
\* The lines of content c that start with word w.
LinesOf(c, w) == {k \in DOMAIN c : c[k][1] = w}

\* C10 as claimed: the file written for a vendor other than "nvidia" is
\* the header line followed by six blacklist or alias lines.
C10_SixDirectives ==
    (InSetVendor /\ mfr.vendor # "nvidia" /\ OkAt("sync") # {}) =>
        /\ file[1] = HEADER
        /\ Len(file) = 7
        /\ LinesOf(file, "blacklist") \cup LinesOf(file, "alias") = 2..7

\* C10, amended: that file is the header line followed by ten directive
\* lines, five blacklist lines and five alias lines.
C10_TenDirectives ==
    (InSetVendor /\ mfr.vendor # "nvidia" /\ OkAt("sync") # {}) =>
        /\ file[1] = HEADER
        /\ Len(file) = 11
        /\ LinesOf(file, "blacklist") = 2..6
        /\ LinesOf(file, "alias") = 7..11

\* set_vendor("intel") after a set_vendor("nvidia") that had rebuilt the
\* initramfs: the file holds eleven lines, the image is the older one.
C10_Witness ==
    /\ InSetVendor /\ mpc = "done" /\ mfr.vendor = "intel"
    /\ initramfs = MODPROBE_NVIDIA
    /\ Len(file) = 11
    /\ At("update-initramfs") # {}

----------------------------------------------------------------------------
\* The call in hand (or the last one) is an auto_power() that could read
\* the module registry.
AutoCall ==
    /\ gfx.ok /\ mfr.op = "auto_power"
    /\ ~(mpc = "done" /\ mres.err = "ModulesFetch")

\* A module named nouveau or nvidia is loaded.
NvLoaded == "nouveau" \in modules \/ "nvidia" \in modules

\* C11, the state: an auto_power() call runs as set_power(true) when
\* nouveau or nvidia is loaded (that is when get_vendor() is "nvidia") and
\* as set_power(false) otherwise: it is at a step of that branch, has
\* issued only that branch's system calls and returns one of its results.
C11_SameBranch ==
    AutoCall =>
        /\ (get_vendor(modules) = "nvidia") <=> NvLoaded
        /\ mfr.power <=> NvLoaded
        /\ ~BothLists =>
              mpc = "done" /\ mres = Err("NotSwitchable") /\ mlog = <<>>
        /\ (BothLists /\ NvLoaded) =>
              /\ mpc \in {"sp_rescan", "done"}
              /\ mpc = "sp_rescan" => mlog = <<>>
              /\ mpc = "done" =>
                    \/ mres = Ok /\ mlog = <<Ev("rescan", NoId, "", 0)>>
                       /\ \A f \in DOMAIN node : node[f]
                    \/ mres = Err("Rescan")
                       /\ mlog = <<Ev("rescan", NoId, "", 1)>>
        /\ (BothLists /\ ~NvLoaded) =>
              /\ mpc \in {"ub_exists", "ub_driver", "ub_write", "rm_exists",
                          "rm_driver", "rm_write", "done"}
              /\ At("rescan") = {}
              /\ mpc = "done" =>
                    mres.err \in {"Ok", "PciDriver", "Unbind",
                                  "DeviceInUse", "Remove"}

\* C11, the step: auto_power() that could read the registry enters as
\* set_power(b) does, b being whether nouveau or nvidia is loaded, with
\* the world untouched, and each step it then takes is a step of
\* set_power()'s code.
C11_SameSteps ==
    (AutoCall' /\ <<pc, fr, result, log>>' # <<pc, fr, result, log>>) =>
        IF mpc = "done"
        THEN /\ UNCHANGED <<node, drv, modules, file, service, initramfs>>
             /\ mlog' = <<>>
             /\ mfr'.power <=> NvLoaded
             /\ mfr'.i = 1 /\ mfr'.j = 1 /\ mfr'.node0 = node
             /\ mpc' = IF ~BothLists THEN "done"
                       ELSE IF NvLoaded THEN "sp_rescan" ELSE "ub_exists"
             /\ mres' = IF BothLists THEN mres ELSE Err("NotSwitchable")
        ELSE PowerStep(Main)

\* C11: auto_power() has the result and the effect of set_power(true)
\* when a module named nouveau or nvidia is loaded and of set_power(false)
\* otherwise.
C11_AutoPower == [](C11_SameBranch) /\ [][C11_SameSteps]_vars

\* auto_power() with nouveau loaded brought a removed function back.
C11_Witness ==
    /\ AutoCall /\ mpc = "done" /\ mres = Ok
    /\ "nouveau" \in modules
    /\ \E f \in NvFuncs : ~mfr.node0[f] /\ node[f]

----------------------------------------------------------------------------
\* The removal writes of the main caller's set_power(false) for a function
\* that had a driver bound when the write was issued, and for a function
\* whose node was gone when the write was issued.
BoundWrites == {q \in At("remove") : mlog[q].arg # NoDriver}

GoneWrites == {q \in At("remove") : mlog[q].code = 2}

\* C12, the step: the main caller's set_power(false) issues a removal
\* write for a function with a driver bound, or for a function whose node
\* is gone, only if another caller's call was in progress during it or
\* the kernel bound a driver during it.
C12_BadWriteNeedsRace ==
    (/\ PowerOff /\ mpc = "rm_write"
     /\ \E q \in DOMAIN mlog' \ DOMAIN mlog :
           /\ mlog'[q].ev = "remove"
           /\ mlog'[q].arg # NoDriver \/ mlog'[q].code = 2)
    => (mfr.conc \/ rebound)

----------------------------------------------------------------------------
\* The last call was Graphics::new() and it got as far as reading the
\* devices' attributes.
Discovered ==
    /\ mfr.op = "new"
    /\ OkAt("rescan") # {}
    /\ OkAt("all") # {}

\* Device d is in one of the four lists.
Listed(d) ==
    Count(gfx.amd, d.id) + Count(gfx.intel, d.id)
        + Count(gfx.nvidia, d.id) + Count(gfx.other, d.id) > 0

\* The devices whose class attribute, or whose vendor attribute, cannot
\* be read.
Unreadable ==
    {k \in DOMAIN tree :
        tree[k].class = ReadErr \/ tree[k].vendor = ReadErr}

\* The devices at which the classification loop fails: the class cannot
\* be read, or the class is a display class and the vendor cannot be read.
FailedReads ==
    {k \in DOMAIN tree :
        \/ tree[k].class = ReadErr
        \/ tree[k].class \in 196608..262143 /\ tree[k].vendor = ReadErr}

\* C13 as claimed: when the bus could be rescanned and enumerated,
\* Graphics::new() succeeds whatever attribute cannot be read; a device
\* with an unreadable class or vendor is in no list and every other
\* display-class device is in one.
C13_SilentlySkipped ==
    Discovered =>
        /\ gfx.ok
        /\ \A k \in Unreadable : ~Listed(tree[k])
        /\ \A k \in DOMAIN tree \ Unreadable :
              tree[k].class \in 196608..262143 => Listed(tree[k])

\* C13, amended: Graphics::new() fails, building no Graphics, when the
\* class of any device cannot be read or the vendor of a display-class
\* device cannot be read; only the unreadable vendor of a device of
\* another class is passed over, the vendor never being read: when
\* Graphics::new() succeeds every class was readable, such a device is in
\* no list and every display-class device is in one.
C13_ReadErrorAborts ==
    Discovered =>
        /\ FailedReads # {} => (~gfx.ok /\ mres = Err("Io"))
        /\ FailedReads = {} => gfx.ok
        /\ gfx.ok =>
              /\ mres = Ok
              /\ \A k \in Unreadable :
                    /\ tree[k].class # ReadErr
                    /\ ~Listed(tree[k])
              /\ \A k \in DOMAIN tree \ Unreadable :
                    tree[k].class \in 196608..262143 <=> Listed(tree[k])

\* Graphics::new() failed on a machine with a readable NVIDIA GPU and a
\* device whose class cannot be read.
C13_Witness ==
    /\ Discovered
    /\ ~gfx.ok /\ mres = Err("Io")
    /\ \E k \in DOMAIN tree : tree[k].class = ReadErr
    /\ \E k \in DOMAIN tree :
          tree[k].class = 196608 /\ tree[k].vendor = VENDOR_NVIDIA

----------------------------------------------------------------------------
\* The call in hand (or the last one) is auto_power() on a machine that
\* cannot switch.
AutoUnswitchable == gfx.ok /\ mfr.op = "auto_power" /\ ~BothLists

\* C14 as claimed: on a machine that cannot switch auto_power() returns
\* NotSwitchable, having issued no system call.
C14_AlwaysNotSwitchable ==
    AutoUnswitchable =>
        /\ mpc = "done"
        /\ mres = Err("NotSwitchable")
        /\ mlog = <<>>

\* C14, amended, the result: on a machine that cannot switch auto_power()
\* fails having issued no rescan, unbind or remove, with NotSwitchable or,
\* when the module registry cannot be read, with ModulesFetch.
C14_FailsUntouched ==
    AutoUnswitchable =>
        /\ mpc = "done"
        /\ mres \in {Err("NotSwitchable"), Err("ModulesFetch")}
        /\ mlog = <<>>

\* C14, amended, the step: such a call leaves devices, bindings, modules
\* and boot preference as they are.
C14_NoMutation ==
    (AutoUnswitchable' /\ <<pc, fr, result, log>>' # <<pc, fr, result, log>>)
        => UNCHANGED <<node, drv, modules, file, service, initramfs>>

\* C14, amended: whenever can_switch() is false auto_power() fails, with
\* NotSwitchable or with ModulesFetch, and performs no rescan, unbind or
\* remove.
C14_AutoPowerGate == [](C14_FailsUntouched) /\ [][C14_NoMutation]_vars

\* auto_power() on a machine with an NVIDIA GPU (bound to its driver) and
\* no Intel GPU returned ModulesFetch.
C14_Witness ==
    /\ AutoUnswitchable
    /\ Len(gfx.nvidia) > 0
    /\ mres = Err("ModulesFetch")
    /\ \E f \in NvFuncs : drv[f] # NoDriver

----------------------------------------------------------------------------
\* The call in hand (or the last one) is set_power(true) on a switchable
\* machine.
PowerOn == gfx.ok /\ mfr.op = "set_power" /\ mfr.power /\ BothLists

\* C15, the result: set_power(true) on a switchable machine issues one
\* rescan of the bus and no other system call; it returns Ok when the
\* rescan succeeded, every function then having its node again, and
\* Rescan when it failed.
C15_OneRescan ==
    PowerOn =>
        /\ mpc \in {"sp_rescan", "done"}
        /\ mpc = "sp_rescan" => mlog = <<>>
        /\ mpc = "done" =>
              /\ Len(mlog) = 1
              /\ mlog[1].ev = "rescan"
              /\ mlog[1].code = 0 => mres = Ok
              /\ mlog[1].code # 0 => mres = Err("Rescan")

\* C15, the step: the rescan changes no driver binding and removes no
\* node; a failed one changes nothing.
C15_RescanOnly ==
    (PowerOn /\ mpc = "sp_rescan" /\ mpc' = "done") =>
        /\ UNCHANGED <<drv, modules, file, service, initramfs>>
        /\ IF mres' = Ok THEN \A f \in DOMAIN node : node'[f]
           ELSE node' = node

\* C15: set_power(true) on a switchable system issues exactly one bus
\* rescan and nothing else, and returns Rescan, without a second rescan,
\* when the rescan fails.
C15_PowerOn == [](C15_OneRescan) /\ [][C15_RescanOnly]_vars

\* set_power(true) whose rescan failed while a function was absent.
C15_Witness ==
    /\ PowerOn /\ mpc = "done"
    /\ mres = Err("Rescan")
    /\ mlog = <<Ev("rescan", NoId, "", 1)>>
    /\ \E f \in NvFuncs : ~node[f]

----------------------------------------------------------------------------
\* C16, the state: a set_vendor call is only ever at one of its own steps
\* and issues no rescan, no driver query, no unbind and no removal.
C16_NoDeviceCall ==
    InSetVendor =>
        /\ mpc \in {"sv_open", "sv_write", "sv_systemctl", "sv_initramfs",
                    "done"}
        /\ \A q \in DOMAIN mlog :
              mlog[q].ev \in {"open", "write", "sync", "systemctl",
                              "update-initramfs"}

\* C16, the step: a step of a set_vendor call leaves every node, every
\* driver binding and the loaded modules as they are, hence also what
\* get_power() and get_vendor() return.
C16_LiveStateKept ==
    (InSetVendor' /\ <<pc, fr, result, log>>' # <<pc, fr, result, log>>) =>
        /\ UNCHANGED <<node, drv, modules>>
        /\ get_power(gfx, node') = get_power(gfx, node)
        /\ get_vendor(modules') = get_vendor(modules)

\* C16: set_vendor changes only the persisted boot preference.
C16_PreferenceOnly == [](C16_NoDeviceCall) /\ [][C16_LiveStateKept]_vars

\* set_vendor("intel") succeeded, the blacklist is in the file and in the
\* initramfs, and still get_vendor() is "nvidia" and get_power() is true.
C16_Witness ==
    /\ InSetVendor /\ mpc = "done" /\ mfr.vendor = "intel" /\ mres = Ok
    /\ file = MODPROBE_INTEL /\ initramfs = MODPROBE_INTEL
    /\ get_vendor(modules) = "nvidia"
    /\ get_power(gfx, node)
    /\ \E f \in NvFuncs : drv[f] = "nvidia"

----------------------------------------------------------------------------
\* The step is the bus rescan of set_power(true), of auto_power() with
\* nouveau or nvidia loaded, or of Graphics::new().
RescanStep ==
    \/ /\ gfx.ok /\ mpc = "sp_rescan" /\ mpc' = "done"
       /\ mfr.op = "set_power" /\ mfr.power
    \/ /\ gfx.ok /\ mpc = "sp_rescan" /\ mpc' = "done"
       /\ mfr.op = "auto_power" /\ NvLoaded
    \/ /\ mfr'.op = "new"
       /\ \E q \in DOMAIN mlog' : mlog'[q] = Ev("rescan", NoId, "", 0)

\* C17, the state: when set_power(false) has returned Ok get_power() is
\* false.
C17_OffMeansAbsent ==
    (PowerOff /\ BothLists /\ mpc = "done" /\ mres = Ok) =>
        ~get_power(gfx, node)

\* C17, the step: a node that is absent comes back, and get_power() goes
\* from false to true, only in a step that rescans the bus; get_vendor,
\* get_power, set_vendor and set_power(false) never bring one back.
C17_OnlyRescanRestores ==
    /\ (\E f \in DOMAIN node : ~node[f] /\ node'[f]) => RescanStep
    /\ (/\ gfx.ok /\ gfx'.ok
        /\ ~get_power(gfx, node) /\ get_power(gfx', node')) => RescanStep

\* C17: a removed function stays absent until a bus rescan.
C17_AbsentUntilRescan ==
    [](C17_OffMeansAbsent) /\ [][C17_OnlyRescanRestores]_vars

\* After the GPU was removed, a set_vendor call has succeeded and
\* get_power() is still false.
C17_Witness ==
    /\ InSetVendor /\ BothLists /\ mpc = "done" /\ mres = Ok
    /\ ~get_power(gfx, node)

----------------------------------------------------------------------------
\* A set_power(false) call has returned, the kernel bound no driver
\* during it, and every unbind write and every removal write it issued
\* succeeded.
WritesSucceeded ==
    /\ PowerOff /\ BothLists /\ mpc = "done" /\ ~rebound
    /\ At("unbind") = OkAt("unbind")
    /\ At("remove") = OkAt("remove")

\* C18 as claimed: such a call, whatever existed and was bound when it
\* started, returns Ok and leaves every NVIDIA function absent.
C18_WritesSuffice ==
    WritesSucceeded =>
        /\ mres = Ok
        /\ \A f \in NvFuncs : ~node[f]
        /\ ~get_power(gfx, node)

\* C18, amended: such a call in which no driver query failed either
\* returns Ok and leaves every NVIDIA function absent, having unbound
\* every function that was bound and never found one in use; one in which
\* a driver query failed returns PciDriver.
C18_PowerOffCompletes ==
    WritesSucceeded =>
        IF At("driver") = {}
        THEN /\ mres = Ok
             /\ \A f \in NvFuncs : ~node[f] /\ drv[f] = NoDriver
             /\ ~get_power(gfx, node)
             /\ {mlog[q].id : q \in OkAt("remove")}
                   = {f \in NvFuncs : mfr.node0[f]}
        ELSE mres.err = "PciDriver"

\* A call that started with a driver bound, unbound two functions and
\* removed them.
C18_Witness ==
    /\ WritesSucceeded /\ mfr.bound0
    /\ mres = Ok
    /\ Cardinality(OkAt("unbind")) >= 2
    /\ Cardinality(OkAt("remove")) >= 2
    /\ \A f \in NvFuncs : ~node[f]

----------------------------------------------------------------------------
\* C19: when set_vendor returns Command or UpdateInitramfs the modprobe
\* file has been written and synced and holds the template of the
\* requested vendor, whatever it held before; when it returns
\* UpdateInitramfs, or Command for update-initramfs, systemctl has been
\* run too, and the service flag is as a successful systemctl left it.
C19_NoRollback ==
    (InSetVendor /\ mpc = "done"
        /\ mres.err \in {"Command", "UpdateInitramfs"}) =>
        /\ OkAt("write") # {} /\ OkAt("sync") # {}
        /\ file = Wanted(mfr.vendor)
        /\ (mres.err = "UpdateInitramfs" \/ mres.cmd = "update-initramfs") =>
              /\ \E p \in At("systemctl") : mlog[p].code \in ExitCodes
              /\ OkAt("systemctl") # {} =>
                    service = IF mfr.vendor = "nvidia" THEN "enabled"
                              ELSE "disabled"

\* set_vendor("intel") returned UpdateInitramfs: the file holds the
\* blacklist and the service is disabled, the initramfs is the one built
\* from the header-only file.
C19_Witness ==
    /\ InSetVendor /\ mpc = "done" /\ mfr.vendor = "intel"
    /\ mres.err = "UpdateInitramfs"
    /\ file = MODPROBE_INTEL
    /\ service = "disabled"
    /\ initramfs = MODPROBE_NVIDIA

----------------------------------------------------------------------------
\* performance() or powersave() has run with all three files readable.
Tuned ==
    /\ cpufreq.op # ""
    /\ cpufreq.min # Unread
    /\ cpufreq.max # Unread

\* The maximum frequency the operation is to set.
WantedMax ==
    IF cpufreq.op = "powersave"
    THEN parse_usize(trim_end(cpufreq.max)) \div 2
    ELSE parse_usize(trim_end(cpufreq.max))

WantedGovernor ==
    IF cpufreq.op = "powersave" THEN "powersave\n" ELSE "performance\n"

\* The minimum frequency, the maximum frequency and the governor were
\* written for CPU cpu.
Configured(cpu) ==
    /\ \E k \in DOMAIN cpufreq.writes :
          cpufreq.writes[k] =
              WriteValue(cpu, "scaling_min_freq",
                         parse_usize(trim_end(cpufreq.min)), "")
    /\ \E k \in DOMAIN cpufreq.writes :
          cpufreq.writes[k] = WriteValue(cpu, "scaling_max_freq", WantedMax, "")
    /\ \E k \in DOMAIN cpufreq.writes :
          cpufreq.writes[k] =
              WriteValue(cpu, "scaling_governor", 0, WantedGovernor)

\* C20: on a machine whose possible CPUs are 0..n (the file reads "0-n",
\* or "0" when n is 0), with the minimum and maximum frequencies readable,
\* performance() and powersave() write the minimum frequency, the maximum
\* frequency (halved by powersave) and the governor for every CPU in 0..n.
C20_AllCpusConfigured ==
    Tuned =>
        \A n \in 0..MaxCpu :
            cpufreq.possible = PossibleFile(n) =>
                \A cpu \in 0..n : Configured(cpu)

\* powersave() on a machine with CPUs 0..3 configured CPUs 0, 1 and 2 and
\* wrote nothing for CPU 3.
C20_Witness ==
    /\ Tuned /\ cpufreq.op = "powersave"
    /\ cpufreq.possible = PossibleFile(3)
    /\ \A cpu \in 0..2 : Configured(cpu)
    /\ \A k \in DOMAIN cpufreq.writes : cpufreq.writes[k].cpu # 3

====
